---- MODULE Spec2Model ----
(***************************************************************************)
(* Model of the cw-croncat owner operations (update_settings,              *)
(* move_balances) and of the agent admission helpers (get_agent_status,    *)
(* agents_to_let_in).                                                      *)
(*                                                                         *)
(* Option<T> is a sequence of length at most one: <<>> is None, <<v>> is   *)
(* Some(v).  Vec<T> is a sequence.  Coin is [denom, amount],               *)
(* Cw20CoinVerified is [address, amount].  cw20::Balance is                *)
(* [kind, coins, token] with kind "Native" or "Cw20".                      *)
(***************************************************************************)
EXTENDS Integers, Sequences, FiniteSets, TLC

VARIABLES config, agent_active_queue, agent_pending_queue,
          agent_nomination_begin_time, task_total, last

vars == <<config, agent_active_queue, agent_pending_queue,
          agent_nomination_begin_time, task_total, last>>

registry == <<agent_active_queue, agent_pending_queue,
              agent_nomination_begin_time, task_total>>

----------------------------------------------------------------------------
(* Bounds of the model *)

\* largest amount of one coin or token in a ledger, a chain balance or a movement
MaxAmount == 2
\* largest number of movements in one move_balances batch
MaxBatch == 2
\* largest task total
MaxTasks == 5
\* largest min_tasks_per_agent a settings update supplies
MaxMinTasks == 2
\* largest min_tasks_per_agent of the stored Config a status query starts from
MaxCapacity == 2
\* block times are 0 .. MaxTicks half nomination windows
MaxTicks == 4
\* largest number of fields one settings update supplies
MaxPresent == 2

(* Program constants *)

\* agent_nomination_duration given at instantiation
NominationDuration == 360

TimeStep == NominationDuration \div 2

----------------------------------------------------------------------------
(* Option and Vec helpers *)

None == <<>>
Some(v) == <<v>>
unwrap_or(opt, default) == IF opt = None THEN default ELSE opt[1]

Max(a, b) == IF a >= b THEN a ELSE b

contains(vec, x) == \E i \in 1..Len(vec) : vec[i] = x

\* zero-based index of the first element equal to x (Iterator::position)
position(vec, x) == (CHOOSE i \in 1..Len(vec) :
                        vec[i] = x /\ \A j \in 1..(i - 1) : vec[j] # x) - 1

----------------------------------------------------------------------------
(* Domains of the inputs *)

Owner == "owner_id"
Stranger == "michael_scott"
Senders == {Owner, Stranger}

Agents == {"agent1", "agent2", "agent3"}
Accounts == Agents \cup {Stranger}

Denoms == {"atom", "meow"}
Tokens == {"tokenA"}

Amounts == 0..MaxAmount

coin(amount, denom) == [denom |-> denom, amount |-> amount]
cw20coin(address, amount) == [address |-> address, amount |-> amount]

NoToken == cw20coin("", 0)
Native(coins) == [kind |-> "Native", coins |-> coins, token |-> NoToken]
Cw20(token) == [kind |-> "Cw20", coins |-> <<>>, token |-> token]

----------------------------------------------------------------------------
(* Balance ledger: GenericBalance = [native: Vec<Coin>, cw20: Vec<Cw20CoinVerified>] *)

\* cosmwasm_std::has_coins: the first entry of the denomination covers the amount
has_coins(coins, required) ==
    LET idx == {i \in 1..Len(coins) : coins[i].denom = required.denom}
    IN  IF idx = {} THEN FALSE
        ELSE LET i == CHOOSE k \in idx : \A j \in idx : k <= j
             IN  coins[i].amount >= required.amount

\* has_cw_coins answering true for a token contract without an entry
has_cw_coins_absent_ok(coins, required) ==
    LET idx == {i \in 1..Len(coins) : coins[i].address = required.address}
    IN  IF idx = {} THEN TRUE
        ELSE LET i == CHOOSE k \in idx : \A j \in idx : k <= j
             IN  coins[i].amount >= required.amount

\* has_cw_coins: the entry of the token contract covers the amount
has_cw_coins(coins, required) ==
    LET idx == {i \in 1..Len(coins) : coins[i].address = required.address}
    IN  IF idx = {} THEN FALSE
        ELSE LET i == CHOOSE k \in idx : \A j \in idx : k <= j
             IN  coins[i].amount >= required.amount

\* subtract one coin from the first entry of its denomination; ok is FALSE,
\* and the list is unchanged, when no entry covers the amount
minus_coin(native, c) ==
    LET idx == {i \in 1..Len(native) : native[i].denom = c.denom}
    IN  IF idx = {}
        THEN [ok |-> c.amount = 0, native |-> native]
        ELSE LET i == CHOOSE k \in idx : \A j \in idx : k <= j
             IN  IF native[i].amount < c.amount
                 THEN [ok |-> FALSE, native |-> native]
                 ELSE [ok |-> TRUE,
                       native |-> [native EXCEPT ![i].amount = @ - c.amount]]

RECURSIVE minus_coins(_, _)
minus_coins(native, coins) ==
    IF coins = <<>> THEN [ok |-> TRUE, native |-> native]
    ELSE LET r == minus_coin(native, Head(coins))
         IN  IF r.ok THEN minus_coins(r.native, Tail(coins)) ELSE r

\* GenericBalances::minus_tokens: all coins are subtracted, or none is.  The
\* method returns nothing, so the ledger is the only result.
minus_tokens(balance, coins) ==
    LET r == minus_coins(balance.native, coins)
    IN  IF r.ok THEN [balance EXCEPT !.native = r.native] ELSE balance

\* GenericBalances::minus_cw20tokens
minus_cw20tokens(balance, token) ==
    LET idx == {i \in 1..Len(balance.cw20) : balance.cw20[i].address = token.address}
    IN  IF idx = {} THEN balance
        ELSE LET i == CHOOSE k \in idx : \A j \in idx : k <= j
             IN  IF balance.cw20[i].amount < token.amount THEN balance
                 ELSE [balance EXCEPT !.cw20[i].amount = @ - token.amount]

\* whether the ledger covers the coins (what minus_tokens requires to subtract)
covers(balance, coins) == minus_coins(balance.native, coins).ok

\* the amount the ledger holds of a denomination / token (0 when it has no entry)
RECURSIVE native_amount(_, _)
native_amount(native, denom) ==
    IF native = <<>> THEN 0
    ELSE (IF Head(native).denom = denom THEN Head(native).amount ELSE 0)
         + native_amount(Tail(native), denom)

RECURSIVE cw20_amount(_, _)
cw20_amount(cw20, address) ==
    IF cw20 = <<>> THEN 0
    ELSE (IF Head(cw20).address = address THEN Head(cw20).amount ELSE 0)
         + cw20_amount(Tail(cw20), address)

----------------------------------------------------------------------------
(* Calls.  The host serializes the calls: `last` holds the call being answered,
   its inputs and its result, until the host has taken the response. *)

Idle == [op |-> "idle", result |-> "none"]

\* the host takes the response of the call; the contract waits for the next one
respond ==
    /\ last.op # "idle"
    /\ last' = Idle
    /\ UNCHANGED <<config, agent_active_queue, agent_pending_queue,
                   agent_nomination_begin_time, task_total>>

----------------------------------------------------------------------------
(* Admission controller *)

\* agents_to_let_in without the rounding up of a partial slot
agents_to_let_in_floor(max_tasks, num_active_agents, total_tasks) ==
    LET num_tasks_covered == num_active_agents * max_tasks
    IN  IF total_tasks > num_tasks_covered
        THEN (total_tasks - num_tasks_covered) \div max_tasks
        ELSE 0

\* agents_to_let_in that forgets the tasks the active agents cover
agents_to_let_in_uncovered(max_tasks, num_active_agents, total_tasks) ==
    IF total_tasks > num_active_agents * max_tasks
    THEN (total_tasks \div max_tasks) + (IF total_tasks % max_tasks = 0 THEN 0 ELSE 1)
    ELSE 0

\* CwCroncat::agents_to_let_in, for max_tasks > 0
agents_to_let_in(max_tasks, num_active_agents, total_tasks) ==
    LET num_tasks_covered == num_active_agents * max_tasks
    IN  IF total_tasks > num_tasks_covered
        THEN LET total_tasks_needing_agents == total_tasks - num_tasks_covered
                 remainder == IF total_tasks_needing_agents % max_tasks = 0
                              THEN 0 ELSE 1
             IN  (total_tasks_needing_agents \div max_tasks) + remainder
        ELSE 0

\* agents_to_let_in divides by max_tasks only once total_tasks > covered tasks:
\* with max_tasks = 0 that is total_tasks > 0, and the division panics
agents_to_let_in_panics(max_tasks, num_active_agents, total_tasks) ==
    max_tasks = 0 /\ total_tasks > num_active_agents * max_tasks

\* the match on agent_nomination_begin_time, with < in place of <=
nomination_status_strict(c, agent_position, num_agents_to_accept, begin, block_time) ==
    IF begin # None /\ num_agents_to_accept > 0
    THEN LET time_difference == block_time - begin[1]
             max_index == Max(time_difference \div c.agent_nomination_duration,
                              num_agents_to_accept - 1)
         IN  IF agent_position < max_index THEN "Nominated" ELSE "Pending"
    ELSE "Pending"

\* the match on agent_nomination_begin_time, admitting one position more
nomination_status_lax(c, agent_position, num_agents_to_accept, begin, block_time) ==
    IF begin # None /\ num_agents_to_accept > 0
    THEN LET time_difference == block_time - begin[1]
             max_index == Max(time_difference \div c.agent_nomination_duration,
                              num_agents_to_accept - 1)
         IN  IF agent_position <= max_index + 1 THEN "Nominated" ELSE "Pending"
    ELSE "Pending"

\* the match on agent_nomination_begin_time, with the remainder of the elapsed
\* time in place of the quotient
nomination_status_rem(c, agent_position, num_agents_to_accept, begin, block_time) ==
    IF begin # None /\ num_agents_to_accept > 0
    THEN LET time_difference == block_time - begin[1]
             max_index == Max(time_difference % c.agent_nomination_duration,
                              num_agents_to_accept - 1)
         IN  IF agent_position <= max_index THEN "Nominated" ELSE "Pending"
    ELSE "Pending"

\* the match on agent_nomination_begin_time in get_agent_status
nomination_status(c, agent_position, num_agents_to_accept, begin, block_time) ==
    IF begin # None /\ num_agents_to_accept > 0
    THEN LET time_difference == block_time - begin[1]
             max_index == Max(time_difference \div c.agent_nomination_duration,
                              num_agents_to_accept - 1)
         IN  IF agent_position <= max_index THEN "Nominated" ELSE "Pending"
    ELSE "Pending"

\* get_agent_status looking the account up in the pending queue before the
\* supplied active set
agent_status_pending_first(c, active_queue, pending, begin, total_tasks, block_time, account_id, active) ==
    IF contains(pending, account_id)
    THEN LET min_tasks_per_agent == c.min_tasks_per_agent
             num_active_agents == Len(active_queue)
             agent_position == position(pending, account_id)
         IN  IF agents_to_let_in_panics(min_tasks_per_agent, num_active_agents, total_tasks)
             THEN "panic"
             ELSE nomination_status(c, agent_position,
                      agents_to_let_in(min_tasks_per_agent, num_active_agents, total_tasks),
                      begin, block_time)
    ELSE IF contains(active, account_id) THEN "Active"
    ELSE "AgentUnregistered"

\* CwCroncat::get_agent_status as a function of the loaded state; the result is
\* a status, the error "AgentUnregistered", or "panic"
agent_status(c, active_queue, pending, begin, total_tasks, block_time, account_id, active) ==
    IF contains(active, account_id) THEN "Active"
    ELSE IF contains(pending, account_id)
    THEN LET min_tasks_per_agent == c.min_tasks_per_agent
             num_active_agents == Len(active_queue)
             agent_position == position(pending, account_id)
         IN  IF agents_to_let_in_panics(min_tasks_per_agent, num_active_agents, total_tasks)
             THEN "panic"
             ELSE nomination_status(c, agent_position,
                      agents_to_let_in(min_tasks_per_agent, num_active_agents, total_tasks),
                      begin, block_time)
    ELSE "AgentUnregistered"

\* a status query that moves a Nominated account from the pending queue to the
\* end of the active queue
get_agent_status_promoting(account_id, active, block_time) ==
    LET status == agent_status(config, agent_active_queue, agent_pending_queue,
                               agent_nomination_begin_time, task_total,
                               block_time, account_id, active)
    IN  /\ last' = [op |-> "get_agent_status", account_id |-> account_id,
                    active |-> active, block_time |-> block_time, result |-> status]
        /\ IF status = "Nominated"
           THEN /\ agent_pending_queue' =
                       SelectSeq(agent_pending_queue, LAMBDA a : a # account_id)
                /\ agent_active_queue' = Append(agent_active_queue, account_id)
           ELSE UNCHANGED <<agent_active_queue, agent_pending_queue>>
        /\ UNCHANGED <<config, agent_nomination_begin_time, task_total>>

\* a status query that opens the nomination window, at the block time of the
\* query, when it finds none open
get_agent_status_opening_window(account_id, active, block_time) ==
    /\ last' = [op |-> "get_agent_status", account_id |-> account_id,
                active |-> active, block_time |-> block_time,
                result |-> agent_status(config, agent_active_queue, agent_pending_queue,
                                        agent_nomination_begin_time, task_total,
                                        block_time, account_id, active)]
    /\ agent_nomination_begin_time' =
           IF agent_nomination_begin_time = None THEN Some(block_time)
           ELSE agent_nomination_begin_time
    /\ UNCHANGED <<config, agent_active_queue, agent_pending_queue, task_total>>

\* the call get_agent_status(storage, env, account_id, active): a read of the
\* stored state at the block time of env
get_agent_status(account_id, active, block_time) ==
    /\ last' = [op |-> "get_agent_status", account_id |-> account_id,
                active |-> active, block_time |-> block_time,
                result |-> agent_status(config, agent_active_queue, agent_pending_queue,
                                        agent_nomination_begin_time, task_total,
                                        block_time, account_id, active)]
    /\ UNCHANGED <<config, registry>>

----------------------------------------------------------------------------
(* Settings update *)

\* the new Config built without the owner_id of the payload
patch_config_keeping_owner(c, payload) ==
    [c EXCEPT !.paused = unwrap_or(payload.paused, c.paused),
              !.min_tasks_per_agent =
                  unwrap_or(payload.min_tasks_per_agent, c.min_tasks_per_agent),
              !.agents_eject_threshold =
                  unwrap_or(payload.agents_eject_threshold, c.min_tasks_per_agent),
              !.agent_fee = unwrap_or(payload.agent_fee, c.agent_fee),
              !.gas_price = unwrap_or(payload.gas_price, c.gas_price),
              !.proxy_callback_gas =
                  unwrap_or(payload.proxy_callback_gas, c.proxy_callback_gas),
              !.slot_granularity =
                  unwrap_or(payload.slot_granularity, c.slot_granularity)]

\* the new Config built by update_settings: `Config { .., ..config }`
patch_config(c, payload) ==
    [c EXCEPT !.paused = unwrap_or(payload.paused, c.paused),
              !.owner_id = unwrap_or(payload.owner_id, c.owner_id),
              !.min_tasks_per_agent =
                  unwrap_or(payload.min_tasks_per_agent, c.min_tasks_per_agent),
              !.agents_eject_threshold =
                  unwrap_or(payload.agents_eject_threshold, c.min_tasks_per_agent),
              !.agent_fee = unwrap_or(payload.agent_fee, c.agent_fee),
              !.gas_price = unwrap_or(payload.gas_price, c.gas_price),
              !.proxy_callback_gas =
                  unwrap_or(payload.proxy_callback_gas, c.proxy_callback_gas),
              !.slot_granularity =
                  unwrap_or(payload.slot_granularity, c.slot_granularity)]

\* the closure given to config.update, without the check of the sender
settings_update_unchecked(c, sender, payload) ==
    [result |-> "Ok", config |-> patch_config(c, payload)]

\* the closure given to config.update: the stored Config is replaced only on Ok
settings_update(c, sender, payload) ==
    IF sender # c.owner_id
    THEN [result |-> "Unauthorized", config |-> c]
    ELSE [result |-> "Ok", config |-> patch_config(c, payload)]

\* CwCroncat::update_settings
update_settings(sender, payload) ==
    LET r == settings_update(config, sender, payload)
    IN  /\ config' = r.config
        /\ last' = [op |-> "update_settings", sender |-> sender,
                    payload |-> payload, result |-> r.result]
        /\ UNCHANGED registry

----------------------------------------------------------------------------
(* Settlement *)

BankSend(to, amount) ==
    [kind |-> "BankMsg::Send", to |-> to, coins |-> amount, token |-> NoToken]
Cw20Transfer(to, token) ==
    [kind |-> "Cw20ExecuteMsg::Transfer", to |-> to, coins |-> <<>>, token |-> token]

\* send_tokens that builds the native send without looking whether there are
\* native coins
send_tokens_always_native(to, balance) ==
    [result |-> "Ok",
     messages |-> <<BankSend(to, balance.native)>>
                  \o [i \in 1..Len(balance.cw20) |-> Cw20Transfer(to, balance.cw20[i])],
     coins |-> [native |-> balance.native, cw20 |-> balance.cw20],
     balance |-> balance]

\* helpers::send_tokens(to, balance): the messages, the balance returned with
\* them, and the borrowed balance as the call leaves it
send_tokens(to, balance) ==
    LET native_balance == balance.native
        msgs == IF native_balance = <<>> THEN <<>>
                ELSE <<BankSend(to, native_balance)>>
        coins_native == IF native_balance = <<>> THEN <<>> ELSE balance.native
        cw20_balance == balance.cw20
        cw20_msgs == [i \in 1..Len(cw20_balance) |-> Cw20Transfer(to, cw20_balance[i])]
    IN  [result |-> "Ok",
         messages |-> msgs \o cw20_msgs,
         coins |-> [native |-> coins_native, cw20 |-> balance.cw20],
         balance |-> balance]

\* one movement of the batch that writes the reduced ledger to staked_balance
move_one_into_staked(c, balance, account_id, state_balances) ==
    IF balance.kind = "Native"
    THEN LET bal == balance.coins
         IN  IF bal = <<>>
             THEN [result |-> "panic", config |-> c, messages |-> <<>>]
             ELSE IF ~has_coins(state_balances, bal[1])
             THEN [result |-> "NotEnoughFunds", config |-> c, messages |-> <<>>]
             ELSE [result |-> "Ok",
                   config |-> [c EXCEPT !.staked_balance =
                                            minus_tokens(c.available_balance, bal)],
                   messages |-> <<BankSend(account_id, bal)>>]
    ELSE LET bal == balance.token
         IN  IF ~has_cw_coins(c.available_balance.cw20, bal)
             THEN [result |-> "NotEnoughFunds", config |-> c, messages |-> <<>>]
             ELSE [result |-> "Ok",
                   config |-> [c EXCEPT !.staked_balance =
                                            minus_cw20tokens(c.available_balance, bal)],
                   messages |-> <<Cw20Transfer(account_id, bal)>>]

\* one movement of the batch, applied to the loaded Config: the closure of
\* balances.iter().map(..)
move_one(c, balance, account_id, state_balances) ==
    IF balance.kind = "Native"
    THEN LET bal == balance.coins
         IN  IF bal = <<>>
             THEN [result |-> "panic", config |-> c, messages |-> <<>>]
             ELSE IF ~has_coins(state_balances, bal[1])
             THEN [result |-> "NotEnoughFunds", config |-> c, messages |-> <<>>]
             ELSE [result |-> "Ok",
                   config |-> [c EXCEPT !.available_balance = minus_tokens(@, bal)],
                   messages |-> <<BankSend(account_id, bal)>>]
    ELSE LET bal == balance.token
         IN  IF ~has_cw_coins(c.available_balance.cw20, bal)
             THEN [result |-> "NotEnoughFunds", config |-> c, messages |-> <<>>]
             ELSE [result |-> "Ok",
                   config |-> [c EXCEPT !.available_balance = minus_cw20tokens(@, bal)],
                   messages |-> <<Cw20Transfer(account_id, bal)>>]

\* the batch: collect::<Result<Vec<SubMsg>, ContractError>>() stops at the
\* first movement that fails
RECURSIVE move_all(_, _, _, _, _)
move_all(c, balances, account_id, state_balances, messages) ==
    IF balances = <<>>
    THEN [result |-> "Ok", config |-> c, messages |-> messages]
    ELSE LET r == move_one(c, Head(balances), account_id, state_balances)
         IN  IF r.result = "Ok"
             THEN move_all(r.config, Tail(balances), account_id, state_balances,
                           messages \o r.messages)
             ELSE r

\* move_balances that saves the mutated Config whatever the batch returned
settle_saving_draft(c, sender, balances, account_id, state_balances) ==
    IF sender # c.owner_id
    THEN [result |-> "Unauthorized", config |-> c, messages |-> <<>>]
    ELSE IF c.owner_id # account_id
    THEN [result |-> "CustomError", config |-> c, messages |-> <<>>]
    ELSE LET RECURSIVE go(_, _, _)
             go(cc, bs, ms) ==
                 IF bs = <<>> THEN [result |-> "Ok", config |-> cc, messages |-> ms]
                 ELSE LET r == move_one(cc, Head(bs), account_id, state_balances)
                      IN  IF r.result = "Ok"
                          THEN go(r.config, Tail(bs), ms \o r.messages)
                          ELSE [result |-> r.result, config |-> cc, messages |-> <<>>]
         IN  go(c, balances, <<>>)

\* move_balances without the owner check on the sender
settle_any_sender(c, sender, balances, account_id, state_balances) ==
    IF c.owner_id # account_id
    THEN [result |-> "CustomError", config |-> c, messages |-> <<>>]
    ELSE LET r == move_all(c, balances, account_id, state_balances, <<>>)
         IN  IF r.result = "Ok" THEN r
             ELSE [result |-> r.result, config |-> c, messages |-> <<>>]

\* move_balances without the owner check on the destination
settle_any_destination(c, sender, balances, account_id, state_balances) ==
    IF sender # c.owner_id
    THEN [result |-> "Unauthorized", config |-> c, messages |-> <<>>]
    ELSE LET r == move_all(c, balances, account_id, state_balances, <<>>)
         IN  IF r.result = "Ok" THEN r
             ELSE [result |-> r.result, config |-> c, messages |-> <<>>]

\* the body of move_balances on the loaded Config: the Config to store, the
\* result and the messages of the Response
settle(c, sender, balances, account_id, state_balances) ==
    IF sender # c.owner_id
    THEN [result |-> "Unauthorized", config |-> c, messages |-> <<>>]
    ELSE IF c.owner_id # account_id
    THEN [result |-> "CustomError", config |-> c, messages |-> <<>>]
    ELSE LET r == move_all(c, balances, account_id, state_balances, <<>>)
         IN  IF r.result = "Ok" THEN r
             ELSE [result |-> r.result, config |-> c, messages |-> <<>>]

\* CwCroncat::move_balances; state_balances is querier.query_all_balances
move_balances(sender, balances, account_id, state_balances) ==
    LET r == settle(config, sender, balances, account_id, state_balances)
    IN  /\ config' = r.config
        /\ last' = [op |-> "move_balances", sender |-> sender,
                    balances |-> balances, account_id |-> account_id,
                    state_balances |-> state_balances,
                    result |-> r.result, messages |-> r.messages]
        /\ UNCHANGED registry

----------------------------------------------------------------------------
(* The stored state after instantiation *)

GenericBalance(native, cw20) == [native |-> native, cw20 |-> cw20]

InitConfig ==
    [paused |-> FALSE,
     owner_id |-> Owner,
     min_tasks_per_agent |-> 3,
     agents_eject_threshold |-> 600,
     agent_fee |-> coin(5, "atom"),
     gas_price |-> 1,
     proxy_callback_gas |-> 3,
     slot_granularity |-> 60,
     agent_active_index |-> 0,
     agent_nomination_duration |-> NominationDuration,
     native_denom |-> "atom",
     available_balance |->
         GenericBalance(<<coin(MaxAmount, "atom"), coin(1, "meow")>>,
                        <<cw20coin("tokenA", MaxAmount)>>),
     staked_balance |-> GenericBalance(<<>>, <<>>),
     cw20_whitelist |-> <<>>]

\* the fields of Config that UpdateSettings can patch
PatchFields == {"owner_id", "slot_granularity", "paused", "agent_fee", "gas_price",
                "proxy_callback_gas", "min_tasks_per_agent", "agents_eject_threshold"}

\* the fields of Config that UpdateSettings does not name
KeptFields == DOMAIN InitConfig \ PatchFields

Opt(S) == {None} \cup {Some(v) : v \in S}

\* msg::UpdateSettings
AllPayloads ==
    [owner_id : Opt(Senders),
     slot_granularity : Opt({30}),
     paused : Opt(BOOLEAN),
     agent_fee : Opt({coin(6, "atom")}),
     gas_price : Opt({2}),
     proxy_callback_gas : Opt({4}),
     min_tasks_per_agent : Opt(0..MaxMinTasks),
     agents_eject_threshold : Opt({500})]

present(payload) == {f \in PatchFields : payload[f] # None}

\* the payloads of the calls: at most MaxPresent fields are supplied
Payloads == {p \in AllPayloads : Cardinality(present(p)) <= MaxPresent}

\* block times of the calls: the host clock never runs behind the begin time
Times == {k * TimeStep : k \in 0..MaxTicks}

Init ==
    /\ config = InitConfig
    /\ agent_active_queue = <<"agent3">>
    /\ agent_pending_queue = <<"agent1", "agent2">>
    /\ agent_nomination_begin_time = Some(0)
    /\ task_total = MaxTasks
    /\ last = Idle

UpdateSettingsStep ==
    /\ last.op = "idle"
    /\ \E sender \in Senders, payload \in Payloads : update_settings(sender, payload)

GetAgentStatusStep ==
    /\ last.op = "idle"
    /\ \E account_id \in Accounts, block_time \in {0, MaxTicks * TimeStep} :
           get_agent_status(account_id, agent_active_queue, block_time)

Next == UpdateSettingsStep \/ GetAgentStatusStep \/ respond

Spec == Init /\ [][Next]_vars

----------------------------------------------------------------------------
(* Settlement on its own: move_balances from every ledger *)

SeqsUpTo(S, n) == UNION {[1..k -> S] : k \in 0..n}

\* the movements of a batch (cw20::Balance); "tokenB" has no ledger entry
Movements ==
    {Native(<<>>), Native(<<coin(1, "meow")>>), Cw20(cw20coin("tokenB", 1))}
    \cup {Native(<<coin(a, "atom")>>) : a \in 1..MaxAmount}
    \cup {Native(<<coin(1, "atom"), coin(a, "meow")>>) : a \in 1..MaxAmount}
    \cup {Cw20(cw20coin("tokenA", a)) : a \in 1..MaxAmount}

Batches == SeqsUpTo(Movements, MaxBatch)
ShortBatches == SeqsUpTo(Movements, 1)

\* what the bank module reports for the contract address
ChainBalances == {<<coin(x, "atom"), coin(y, "meow")>> : x \in Amounts, y \in 0..1}

Ledgers ==
    {GenericBalance(<<coin(a, "atom"), coin(m, "meow")>>, <<cw20coin("tokenA", c)>>) :
        a \in Amounts, m \in 0..1, c \in Amounts}

InitMove ==
    /\ \E ledger \in Ledgers : config = [InitConfig EXCEPT !.available_balance = ledger]
    /\ agent_active_queue = <<"agent3">>
    /\ agent_pending_queue = <<"agent1", "agent2">>
    /\ agent_nomination_begin_time = Some(0)
    /\ task_total = MaxTasks
    /\ last = Idle

\* a rejected caller or destination is tried with batches of at most one movement
MoveBalancesStep ==
    /\ last.op = "idle"
    /\ \E sender \in Senders, account_id \in Senders, state_balances \in ChainBalances :
        \E balances \in (IF sender = config.owner_id /\ account_id = config.owner_id
                         THEN Batches ELSE ShortBatches) :
            move_balances(sender, balances, account_id, state_balances)

NextMove == MoveBalancesStep \/ respond

SpecMove == InitMove /\ [][NextMove]_vars

----------------------------------------------------------------------------
(* Admission on its own: get_agent_status from every registry *)

\* the sequences without repetition over the members of S
Queues(S) == {q \in SeqsUpTo(S, Cardinality(S)) :
                 \A i, j \in 1..Len(q) : i # j => q[i] # q[j]}

InitStatus ==
    /\ \E k \in 0..MaxCapacity : config = [InitConfig EXCEPT !.min_tasks_per_agent = k]
    /\ agent_active_queue \in Queues(Agents)
    /\ agent_pending_queue \in Queues(Agents)
    /\ \A i \in 1..Len(agent_pending_queue) :
           ~contains(agent_active_queue, agent_pending_queue[i])
    /\ agent_nomination_begin_time \in Opt({0, TimeStep})
    /\ task_total \in 0..MaxTasks
    /\ last = Idle

\* the active set handed to the query: the stored queue, or another list
ActiveSets == {agent_active_queue, <<>>, <<"agent1">>}

StatusStep ==
    /\ last.op = "idle"
    /\ \E account_id \in Accounts, active \in ActiveSets, block_time \in Times :
        /\ agent_nomination_begin_time # None
               => block_time >= agent_nomination_begin_time[1]
        /\ get_agent_status(account_id, active, block_time)

NextStatus == StatusStep \/ respond

SpecStatus == InitStatus /\ [][NextStatus]_vars

----------------------------------------------------------------------------
(* Admission with a backlog of one and a half agents: one active agent, three
   pending agents in any order, 25 tasks at 10 tasks per agent *)

InitScenario ==
    /\ config = [InitConfig EXCEPT !.min_tasks_per_agent = 10]
    /\ agent_active_queue = <<"agent4">>
    /\ agent_pending_queue \in {q \in Queues(Agents) : Len(q) = Cardinality(Agents)}
    /\ agent_nomination_begin_time \in Opt({0, TimeStep})
    /\ task_total = 25
    /\ last = Idle

SpecWindow == (InitStatus \/ InitScenario) /\ [][NextStatus]_vars

----------------------------------------------------------------------------
(* The three operations together, from the instantiated state *)

\* the settings that decide who may call and how admission divides: payloads
\* that supply at most one of owner_id, paused and min_tasks_per_agent
OpsPayloads ==
    {p \in AllPayloads :
        /\ present(p) \subseteq {"owner_id", "paused", "min_tasks_per_agent"}
        /\ Cardinality(present(p)) <= 1}

\* the bank module reports all the model's coins for the contract address
OpsChainBalance == <<coin(MaxAmount, "atom"), coin(1, "meow")>>

OpsUpdateSettingsStep ==
    /\ last.op = "idle"
    /\ \E sender \in Senders, payload \in OpsPayloads : update_settings(sender, payload)

OpsMoveBalancesStep ==
    /\ last.op = "idle"
    /\ \E sender \in Senders, account_id \in Senders, balances \in ShortBatches :
           move_balances(sender, balances, account_id, OpsChainBalance)

NextOps ==
    OpsUpdateSettingsStep \/ OpsMoveBalancesStep \/ GetAgentStatusStep \/ respond

SpecOps == Init /\ [][NextOps]_vars

----------------------------------------------------------------------------
(* send_tokens on its own: applied to every balance of at most MaxBatch
   native coins and MaxBatch token entries *)

SendBalances ==
    {GenericBalance(native, cw20) :
        native \in SeqsUpTo({coin(a, d) : a \in 1..MaxAmount, d \in Denoms}, MaxBatch),
        cw20 \in SeqsUpTo({cw20coin(t, a) : t \in {"tokenA", "tokenB"},
                                            a \in 1..MaxAmount}, MaxBatch)}

SendTokensStep ==
    /\ last.op = "idle"
    /\ \E to \in Accounts, balance \in SendBalances :
           LET r == send_tokens(to, balance)
           IN  last' = [op |-> "send_tokens", to |-> to, input |-> balance,
                        result |-> r.result, messages |-> r.messages,
                        coins |-> r.coins, balance |-> r.balance]
    /\ UNCHANGED <<config, registry>>

NextSend == SendTokensStep \/ respond

SpecSend == Init /\ [][NextSend]_vars

----------------------------------------------------------------------------
(* Definitions the properties are stated with *)

\* slotsToOpen as the specification defines it: the least number of agents
\* whose capacity k covers the backlog
SlotsToOpen(k, n, t) ==
    LET backlog == IF t > n * k THEN t - n * k ELSE 0
    IN  CHOOSE m \in 0..backlog :
            /\ m * k >= backlog
            /\ \A j \in 0..(m - 1) : j * k < backlog

\* the call being answered is a status query that took the pending branch
PendingQuery ==
    /\ last.op = "get_agent_status"
    /\ contains(agent_pending_queue, last.account_id)
    /\ ~contains(last.active, last.account_id)

RECURSIVE coins_amount(_, _)
coins_amount(coins, denom) ==
    IF coins = <<>> THEN 0
    ELSE (IF Head(coins).denom = denom THEN Head(coins).amount ELSE 0)
         + coins_amount(Tail(coins), denom)

\* the total of a denomination over the bank sends of a response
RECURSIVE sent_native(_, _)
sent_native(messages, denom) ==
    IF messages = <<>> THEN 0
    ELSE (IF Head(messages).kind = "BankMsg::Send"
          THEN coins_amount(Head(messages).coins, denom) ELSE 0)
         + sent_native(Tail(messages), denom)

\* the total of a token over the token transfers of a response
RECURSIVE sent_cw20(_, _)
sent_cw20(messages, address) ==
    IF messages = <<>> THEN 0
    ELSE (IF Head(messages).kind = "Cw20ExecuteMsg::Transfer"
             /\ Head(messages).token.address = address
          THEN Head(messages).token.amount ELSE 0)
         + sent_cw20(Tail(messages), address)

AllDenoms == Denoms
AllTokens == Tokens \cup {"tokenB"}

----------------------------------------------------------------------------
(* Properties *)

\* C1: for an account handled as a pending agent while a nomination window is
\* open and slotsToOpen > 0, get_agent_status answers Nominated exactly when
\* the zero-based queue position p satisfies
\* p <= max((blockTime - nomination_begin_time) div agent_nomination_duration,
\*          slotsToOpen - 1), and Pending otherwise.
C1_NominatedIffWithinMaxIndex ==
    (/\ PendingQuery
     /\ agent_nomination_begin_time # None
     /\ config.min_tasks_per_agent > 0
     /\ SlotsToOpen(config.min_tasks_per_agent, Len(agent_active_queue), task_total) > 0)
    => LET p == position(agent_pending_queue, last.account_id)
           elapsed == last.block_time - agent_nomination_begin_time[1]
           slots == SlotsToOpen(config.min_tasks_per_agent,
                                Len(agent_active_queue), task_total)
           maxAdmittableIndex ==
               Max(elapsed \div config.agent_nomination_duration, slots - 1)
       IN  /\ last.result \in {"Nominated", "Pending"}
           /\ last.result = "Nominated" <=> p <= maxAdmittableIndex

\* a pending agent beyond the open slots is Nominated because time has passed,
\* and another one, further back, is still Pending
C1_Witness ==
    /\ PendingQuery
    /\ agent_nomination_begin_time # None
    /\ config.min_tasks_per_agent > 0
    /\ LET p == position(agent_pending_queue, last.account_id)
           slots == SlotsToOpen(config.min_tasks_per_agent,
                                Len(agent_active_queue), task_total)
       IN  /\ slots > 0
           /\ p > slots - 1
           /\ last.result = "Nominated"
           /\ agent_status(config, agent_active_queue, agent_pending_queue,
                           agent_nomination_begin_time, task_total, last.block_time,
                           agent_pending_queue[Len(agent_pending_queue)], last.active)
                  = "Pending"

\* C2: for min_tasks_per_agent k > 0, n active agents and total_tasks t,
\* agents_to_let_in(k, n, t) is 0 when t <= n*k and ceil((t - n*k) / k)
\* otherwise; a backlog of 5 with k = 2 gives 3 and a backlog of 4 gives 2.
C2_SlotsAreCeiling ==
    LET k == config.min_tasks_per_agent
        n == Len(agent_active_queue)
        t == task_total
    IN  /\ k > 0 =>
               /\ t <= n * k => agents_to_let_in(k, n, t) = 0
               /\ t > n * k =>
                      /\ agents_to_let_in(k, n, t) * k >= t - n * k
                      /\ (agents_to_let_in(k, n, t) - 1) * k < t - n * k
               /\ agents_to_let_in(k, n, t) = SlotsToOpen(k, n, t)
        /\ agents_to_let_in(2, 0, 5) = 3
        /\ agents_to_let_in(2, 0, 4) = 2

\* a query answered with a backlog that is not a multiple of the capacity:
\* the partial slot is what nominates the last of three pending agents
C2_Witness ==
    /\ PendingQuery
    /\ config.min_tasks_per_agent = 2
    /\ task_total - Len(agent_active_queue) * 2 = 5
    /\ agents_to_let_in(2, Len(agent_active_queue), task_total) = 3
    /\ agent_nomination_begin_time # None
    /\ last.block_time = agent_nomination_begin_time[1]
    /\ position(agent_pending_queue, last.account_id) = 2
    /\ last.result = "Nominated"


\* the call being answered is a move_balances by the owner to the owner account
\* (in the state the call has left)
OwnerMove ==
    /\ last.op = "move_balances"
    /\ last.sender = config.owner_id
    /\ last.account_id = config.owner_id

\* a movement that fails its check whenever the batch reaches it: a native
\* movement whose first coin the chain balance does not cover, or a token
\* movement the ledger entry held before the call does not cover
fails_check(c, balance, state_balances) ==
    IF balance.kind = "Native"
    THEN balance.coins # <<>> /\ ~has_coins(state_balances, balance.coins[1])
    ELSE ~has_cw_coins(c.available_balance.cw20, balance.token)

\* C3: settlement atomicity: when a movement of a move_balances batch fails
\* its checks the call fails, and every failed call leaves the stored Config
\* (available_balance included) as it was and emits no transfer instruction,
\* also when earlier movements of the batch were valid.
C3_FailedBatchChangesNothing ==
    [][last'.op = "move_balances" =>
          /\ (/\ last'.sender = config.owner_id
              /\ last'.account_id = config.owner_id
              /\ \E i \in 1..Len(last'.balances) :
                     fails_check(config, last'.balances[i], last'.state_balances))
                 => last'.result # "Ok"
          /\ last'.result # "Ok" => (config' = config /\ last'.messages = <<>>)]_vars

\* a batch whose first movement is valid and moves funds, and whose second
\* movement fails
C3_Witness ==
    /\ OwnerMove
    /\ last.result = "NotEnoughFunds"
    /\ Len(last.balances) = 2
    /\ LET first == move_one(config, last.balances[1], last.account_id,
                             last.state_balances)
       IN  first.result = "Ok" /\ first.config # config
    /\ fails_check(config, last.balances[2], last.state_balances)

\* C4: a native amount above the ledger's available_balance of the
\* denomination, but within the chain balance of the contract, makes
\* move_balances fail and change nothing.
C4_LedgerCapsNativeMove ==
    [][(/\ last'.op = "move_balances"
        /\ last'.sender = config.owner_id
        /\ last'.account_id = config.owner_id
        /\ Len(last'.balances) = 1
        /\ last'.balances[1].kind = "Native"
        /\ Len(last'.balances[1].coins) = 1
        /\ has_coins(last'.state_balances, last'.balances[1].coins[1])
        /\ last'.balances[1].coins[1].amount >
               native_amount(config.available_balance.native,
                             last'.balances[1].coins[1].denom))
       => (/\ last'.result \in {"InsufficientFunds", "NotEnoughFunds"}
           /\ config' = config
           /\ last'.messages = <<>>)]_vars

\* C5: the transfer instructions of a successful move_balances carry, per
\* denomination and per token contract, no more than the available_balance
\* entry held before the call.
C5_OutflowCovered ==
    [][(last'.op = "move_balances" /\ last'.result = "Ok") =>
          /\ \A d \in AllDenoms :
                 sent_native(last'.messages, d)
                     <= native_amount(config.available_balance.native, d)
          /\ \A a \in AllTokens :
                 sent_cw20(last'.messages, a)
                     <= cw20_amount(config.available_balance.cw20, a)]_vars

\* no entry of a ledger is negative
NonNegative(balance) ==
    /\ \A i \in 1..Len(balance.native) : balance.native[i].amount >= 0
    /\ \A i \in 1..Len(balance.cw20) : balance.cw20[i].amount >= 0

\* C6: ledger safety: no entry of available_balance is ever negative, and a
\* subtraction that exceeds the current amount leaves the ledger unchanged
\* and is answered with InsufficientFunds.
C6_LedgerSafety ==
    [][/\ NonNegative(config'.available_balance)
       /\ (/\ last'.op = "move_balances"
           /\ last'.sender = config.owner_id
           /\ last'.account_id = config.owner_id
           /\ last'.balances # <<>>
           /\ last'.balances[1].kind = "Native"
           /\ last'.balances[1].coins # <<>>
           /\ has_coins(last'.state_balances, last'.balances[1].coins[1])
           /\ ~covers(config.available_balance, last'.balances[1].coins))
          => (/\ last'.result \in {"InsufficientFunds", "NotEnoughFunds"}
              /\ config'.available_balance = config.available_balance)]_vars

\* C7: move_balances succeeds only if the chain balance of the contract
\* covers every coin of every native movement of the batch.
C7_ChainCoversEveryCoin ==
    (last.op = "move_balances" /\ last.result = "Ok") =>
        \A i \in 1..Len(last.balances) :
            last.balances[i].kind = "Native" =>
                \A j \in 1..Len(last.balances[i].coins) :
                    has_coins(last.state_balances, last.balances[i].coins[j])

\* C8: update_settings by the owner sets the fields the payload supplies and
\* keeps every other field of Config.
C8_SparsePatch ==
    [][(last'.op = "update_settings" /\ last'.result = "Ok") =>
          /\ \A f \in PatchFields :
                 config'[f] = IF last'.payload[f] = None THEN config[f]
                              ELSE last'.payload[f][1]
          /\ \A f \in KeptFields : config'[f] = config[f]]_vars

\* C9: update_settings by a sender other than config.owner_id fails with
\* Unauthorized and leaves the stored Config unchanged, whatever the payload.
C9_NonOwnerUnauthorized ==
    [][(last'.op = "update_settings" /\ last'.sender # config.owner_id) =>
          (last'.result = "Unauthorized" /\ config' = config)]_vars

\* the former owner, after handing the ownership over, is refused a payload
\* that supplies MaxPresent fields
C9_Witness ==
    /\ last.op = "update_settings"
    /\ last.sender = Owner
    /\ config.owner_id # Owner
    /\ Cardinality(present(last.payload)) = MaxPresent
    /\ last.result = "Unauthorized"

\* C10: min_tasks_per_agent is never 0 in the stored Config, so that no
\* status query divides by zero in agents_to_let_in.
C10_MinTasksNeverZero ==
    /\ config.min_tasks_per_agent > 0
    /\ last.op = "get_agent_status" => last.result # "panic"

\* the batch of the answered move_balances call would have been settled, and
\* taken from the ledger, had the owner sent it to the owner account
funds_available ==
    LET r == settle(config, config.owner_id, last.balances, config.owner_id,
                    last.state_balances)
    IN  r.result = "Ok" /\ r.config # config

\* C11: move_balances sent by any account other than config.owner_id fails
\* with Unauthorized whatever the movements and the destination, emits no
\* transfer instruction and leaves the Config as it was
C11_StrangerMoveUnauthorized ==
    [][(last'.op = "move_balances" /\ last'.sender # config.owner_id)
        => /\ last'.result = "Unauthorized"
           /\ last'.messages = <<>>
           /\ config' = config]_vars

\* a stranger asked for funds the ledger and the chain hold, to the owner
\* account, and was refused
C11_Witness ==
    /\ last.op = "move_balances"
    /\ last.sender # config.owner_id
    /\ last.account_id = config.owner_id
    /\ last.balances # <<>>
    /\ funds_available
    /\ last.result = "Unauthorized"

\* C12: move_balances sent by the owner to a destination that is not the
\* owner account fails with the custom policy error, emits nothing and leaves
\* the Config as it was, even when the requested funds are available
C12_ForeignDestinationRefused ==
    [][(/\ last'.op = "move_balances"
        /\ last'.sender = config.owner_id
        /\ last'.account_id # config.owner_id)
        => /\ last'.result = "CustomError"
           /\ last'.messages = <<>>
           /\ config' = config]_vars

\* the owner asked for available funds to go to another account and was refused
C12_Witness ==
    /\ last.op = "move_balances"
    /\ last.sender = config.owner_id
    /\ last.account_id # config.owner_id
    /\ last.balances # <<>>
    /\ funds_available
    /\ last.result = "CustomError"

\* C13: when slotsToOpen is 0 (task_total <= active agents * min_tasks_per_agent,
\* task_total = 0 included) or nomination_begin_time is unset, get_agent_status
\* answers Pending for every account handled as a pending agent, at every
\* queue position and block time
C13_ClosedWindowIsPending ==
    (/\ PendingQuery
     /\ \/ agent_nomination_begin_time = None
        \/ task_total <= Len(agent_active_queue) * config.min_tasks_per_agent)
    => last.result = "Pending"

\* the status get_agent_status gives an account at a block time, everything
\* else as in the call being answered
status_at(account_id, block_time) ==
    agent_status(config, agent_active_queue, agent_pending_queue,
                 agent_nomination_begin_time, task_total, block_time,
                 account_id, last.active)

\* how many agents of the pending queue are Nominated at the block time of the
\* call being answered
NominatedCount ==
    Cardinality({i \in 1..Len(agent_pending_queue) :
                    status_at(agent_pending_queue[i], last.block_time) = "Nominated"})

\* a status query is being answered while a nomination window is open
WindowQuery ==
    /\ last.op = "get_agent_status"
    /\ agent_nomination_begin_time # None

\* C14 as stated: at any block time within an open nomination window the
\* number of pending-queue agents whose status is Nominated does not exceed
\* slotsToOpen
C14_NominatedWithinSlots ==
    (WindowQuery /\ config.min_tasks_per_agent > 0)
    => NominatedCount <= SlotsToOpen(config.min_tasks_per_agent,
                                     Len(agent_active_queue), task_total)

\* C14: at any block time within an open nomination window the number of
\* pending-queue agents whose status is Nominated is 0 when slotsToOpen is 0
\* or min_tasks_per_agent is 0, and otherwise does not exceed
\* max(elapsed div agent_nomination_duration, slotsToOpen - 1) + 1
C14_NominatedWithinMaxIndex ==
    WindowQuery
    => IF config.min_tasks_per_agent = 0 THEN NominatedCount = 0
       ELSE LET slots == SlotsToOpen(config.min_tasks_per_agent,
                                     Len(agent_active_queue), task_total)
                elapsed == last.block_time - agent_nomination_begin_time[1]
            IN  IF slots = 0 THEN NominatedCount = 0
                ELSE NominatedCount
                         <= Max(elapsed \div config.agent_nomination_duration,
                                slots - 1) + 1

\* the elapsed windows, not the open slots, decide: more agents are Nominated
\* than slots are open, the queried one among them, and one is still Pending
C14_Witness ==
    /\ WindowQuery
    /\ PendingQuery
    /\ config.min_tasks_per_agent > 0
    /\ LET slots == SlotsToOpen(config.min_tasks_per_agent,
                                Len(agent_active_queue), task_total)
           elapsed == last.block_time - agent_nomination_begin_time[1]
       IN  /\ slots > 0
           /\ NominatedCount > slots
           /\ NominatedCount = (elapsed \div config.agent_nomination_duration) + 1
           /\ NominatedCount < Len(agent_pending_queue)
           /\ last.result = "Nominated"
           /\ position(agent_pending_queue, last.account_id) >= slots

\* C15: with the queues, the task total, the Config and nomination_begin_time
\* fixed, a pending agent that is Nominated at block time t is Nominated at
\* every block time t' >= t
C15_NominatedStaysNominated ==
    (PendingQuery /\ last.result = "Nominated")
    => \A later \in Times :
           later >= last.block_time
               => status_at(last.account_id, later) = "Nominated"

\* an agent that was Pending when the window opened is Nominated now, and
\* later block times remain to be compared with
C15_Witness ==
    /\ PendingQuery
    /\ last.result = "Nominated"
    /\ agent_nomination_begin_time # None
    /\ status_at(last.account_id, agent_nomination_begin_time[1]) = "Pending"
    /\ \E later \in Times : later > last.block_time

\* C16: get_agent_status answers Active for any account in the supplied active
\* set, whatever the pending queue, the task total, the nomination window and
\* the block time
C16_SuppliedActiveIsActive ==
    (last.op = "get_agent_status" /\ contains(last.active, last.account_id))
    => last.result = "Active"

\* the account is in the supplied active set and also in the pending queue, in
\* a state where the pending branch would have panicked
C16_Witness ==
    /\ last.op = "get_agent_status"
    /\ contains(last.active, last.account_id)
    /\ contains(agent_pending_queue, last.account_id)
    /\ ~contains(agent_active_queue, last.account_id)
    /\ agents_to_let_in_panics(config.min_tasks_per_agent,
                               Len(agent_active_queue), task_total)
    /\ last.result = "Active"

\* C17: get_agent_status fails with AgentUnregistered exactly when the account
\* is in neither the supplied active set nor the pending queue; for an account
\* in either one it returns a status, never this error
C17_UnregisteredIffInNeither ==
    last.op = "get_agent_status"
    => LET known == \/ contains(last.active, last.account_id)
                    \/ contains(agent_pending_queue, last.account_id)
       IN  /\ last.result = "AgentUnregistered" <=> ~known
           /\ known => last.result \in {"Active", "Nominated", "Pending"}

\* the registry of the window-open scenario
ScenarioState ==
    /\ config.min_tasks_per_agent = 10
    /\ Len(agent_active_queue) = 1
    /\ task_total = 25
    /\ config.agent_nomination_duration = 360

\* C18: with min_tasks_per_agent = 10, one active agent, total_tasks = 25 and
\* agent_nomination_duration = 360, slotsToOpen is 2 and at elapsed = 0 the
\* pending agents at positions 0 and 1 are Nominated while every agent at
\* position 2 or later is Pending; in general, while
\* elapsed < agent_nomination_duration the Nominated positions are exactly
\* 0 .. slotsToOpen - 1
C18_WindowOpenScenario ==
    (/\ PendingQuery
     /\ agent_nomination_begin_time # None
     /\ config.min_tasks_per_agent > 0)
    => LET p == position(agent_pending_queue, last.account_id)
           elapsed == last.block_time - agent_nomination_begin_time[1]
           slots == SlotsToOpen(config.min_tasks_per_agent,
                                Len(agent_active_queue), task_total)
       IN  /\ elapsed < config.agent_nomination_duration
               => /\ last.result \in {"Nominated", "Pending"}
                  /\ last.result = "Nominated" <=> p \in 0..(slots - 1)
           /\ (ScenarioState /\ elapsed = 0)
               => /\ slots = 2
                  /\ agents_to_let_in(config.min_tasks_per_agent,
                                      Len(agent_active_queue), task_total) = 2
                  /\ p \in {0, 1} => last.result = "Nominated"
                  /\ p >= 2 => last.result = "Pending"

\* in the scenario, at the opening of the window, the agent at position 2 is
\* answered Pending while the agents at positions 0 and 1 are Nominated
C18_Witness ==
    /\ PendingQuery
    /\ ScenarioState
    /\ agent_nomination_begin_time # None
    /\ last.block_time = agent_nomination_begin_time[1]
    /\ position(agent_pending_queue, last.account_id) = 2
    /\ last.result = "Pending"
    /\ status_at(agent_pending_queue[1], last.block_time) = "Nominated"
    /\ status_at(agent_pending_queue[2], last.block_time) = "Nominated"

\* the transfer instruction the claim expects for one movement
instruction_for(balance, account_id) ==
    IF balance.kind = "Native" THEN BankSend(account_id, balance.coins)
    ELSE Cw20Transfer(account_id, balance.token)

\* C19: a successful move_balances emits exactly one transfer instruction per
\* requested movement, addressed to the destination (a bank send for a native
\* movement, a token-contract transfer for a token movement), and reduces the
\* available_balance entry of each moved denomination or token by exactly the
\* moved amount, leaving the other entries unchanged
C19_SettledBatchIsExact ==
    [][(last'.op = "move_balances" /\ last'.result = "Ok") =>
          /\ Len(last'.messages) = Len(last'.balances)
          /\ \A i \in 1..Len(last'.balances) :
                 last'.messages[i]
                     = instruction_for(last'.balances[i], last'.account_id)
          /\ \A d \in AllDenoms :
                 native_amount(config'.available_balance.native, d)
                     = native_amount(config.available_balance.native, d)
                           - sent_native(last'.messages, d)
          /\ \A a \in AllTokens :
                 cw20_amount(config'.available_balance.cw20, a)
                     = cw20_amount(config.available_balance.cw20, a)
                           - sent_cw20(last'.messages, a)]_vars

\* C20: update_settings, move_balances and get_agent_status never change the
\* active queue, the pending queue (membership and order) or
\* nomination_begin_time; after any sequence of these calls every pending
\* agent keeps its queue position
C20_QueuesStable ==
    [][/\ agent_active_queue' = agent_active_queue
       /\ agent_pending_queue' = agent_pending_queue
       /\ agent_nomination_begin_time' = agent_nomination_begin_time
       /\ \A a \in Agents :
              contains(agent_pending_queue, a)
                  => /\ contains(agent_pending_queue', a)
                     /\ position(agent_pending_queue', a)
                            = position(agent_pending_queue, a)]_vars

\* the owner has been replaced and funds have been moved, a pending agent is
\* answered Nominated, and the queues are those of the instantiated state
C20_Witness ==
    /\ last.op = "get_agent_status"
    /\ last.result = "Nominated"
    /\ config.owner_id # InitConfig.owner_id
    /\ config.available_balance # InitConfig.available_balance
    /\ agent_active_queue = <<"agent3">>
    /\ agent_pending_queue = <<"agent1", "agent2">>
    /\ agent_nomination_begin_time = Some(0)

\* C21: get_agent_status is a pure read: it modifies no stored state (Config
\* with its ledger, queues, nomination_begin_time, task total), and a second
\* call with the same account, active set and block time in the state the
\* first one left returns the same result
C21_StatusIsPureRead ==
    [][last'.op = "get_agent_status" =>
          /\ config' = config
          /\ registry' = registry
          /\ last'.result
                 = agent_status(config', agent_active_queue', agent_pending_queue',
                                agent_nomination_begin_time', task_total',
                                last'.block_time, last'.account_id, last'.active)]_vars

\* a pending agent asked while no window is open, with tasks waiting for an
\* agent: the answer is Pending
C21_Witness ==
    /\ PendingQuery
    /\ agent_nomination_begin_time = None
    /\ config.min_tasks_per_agent > 0
    /\ task_total > Len(agent_active_queue) * config.min_tasks_per_agent
    /\ last.result = "Pending"

\* C22: in every reachable state exactly the account stored in config.owner_id
\* can change Config: a step that changes Config is a call of that account, a
\* call of update_settings or move_balances is refused with Unauthorized exactly
\* when its sender is not that account, and update_settings by the owner with
\* owner_id = Some(X) stores X, so that from then on, while X is the stored
\* owner, the calls of the old owner are refused and those of X are authorized
C22_OwnershipHandOver ==
    [][/\ config' # config
           => /\ last'.op \in {"update_settings", "move_balances"}
              /\ last'.sender = config.owner_id
       /\ last'.op \in {"update_settings", "move_balances"}
           => (last'.result = "Unauthorized" <=> last'.sender # config.owner_id)
       /\ (/\ last'.op = "update_settings"
           /\ last'.sender = config.owner_id
           /\ last'.payload.owner_id # None)
           => config'.owner_id = last'.payload.owner_id[1]]_vars

\* the ownership has been handed over, and a move_balances of the first owner
\* to itself is refused
C22_Witness ==
    /\ config.owner_id # InitConfig.owner_id
    /\ last.op = "move_balances"
    /\ last.sender = InitConfig.owner_id
    /\ last.account_id = InitConfig.owner_id
    /\ last.balances # <<>>
    /\ last.result = "Unauthorized"

\* the ledger has an entry for the token contract that holds at least the amount
token_covered(cw20, required) ==
    \E i \in 1..Len(cw20) :
        cw20[i].address = required.address /\ cw20[i].amount >= required.amount

\* C23: a token movement in move_balances is accepted only if available_balance
\* holds an entry for that token contract whose amount is at least the
\* requested amount; has_cw_coins(coins, required) is true exactly when such
\* an entry exists, and false when the token contract has no entry; a rejected
\* token movement fails the call with NotEnoughFunds
C23_TokenMoveNeedsLedgerEntry ==
    [][/\ \A address \in AllTokens, amount \in 1..MaxAmount :
              has_cw_coins(config.available_balance.cw20, cw20coin(address, amount))
                  <=> token_covered(config.available_balance.cw20,
                                    cw20coin(address, amount))
       /\ (/\ last'.op = "move_balances"
           /\ last'.sender = config.owner_id
           /\ last'.account_id = config.owner_id
           /\ last'.balances # <<>>
           /\ last'.balances[1].kind = "Cw20")
           => LET covered == token_covered(config.available_balance.cw20,
                                           last'.balances[1].token)
              IN  /\ last'.result = "Ok" => covered
                  /\ ~covered => /\ last'.result = "NotEnoughFunds"
                                 /\ last'.messages = <<>>
                                 /\ config' = config
                  /\ covered =>
                         /\ cw20_amount(config'.available_balance.cw20,
                                        last'.balances[1].token.address)
                                <= cw20_amount(config.available_balance.cw20,
                                               last'.balances[1].token.address)
                         /\ last'.result = "Ok"
                                => Head(last'.messages)
                                       = Cw20Transfer(last'.account_id,
                                                      last'.balances[1].token)]_vars

\* the ledger holds a token, and a movement of a token contract that has no
\* entry is refused
C23_Witness ==
    /\ OwnerMove
    /\ last.balances # <<>>
    /\ last.balances[1].kind = "Cw20"
    /\ cw20_amount(config.available_balance.cw20, "tokenA") > 0
    /\ \A i \in 1..Len(config.available_balance.cw20) :
           config.available_balance.cw20[i].address # last.balances[1].token.address
    /\ last.result = "NotEnoughFunds"

\* C24: move_balances changes no Config field other than available_balance:
\* staked_balance, owner_id, paused, the fee and gas parameters,
\* min_tasks_per_agent and agents_eject_threshold are the same after any
\* successful or failed call
C24_MoveTouchesOnlyAvailable ==
    [][last'.op = "move_balances" =>
          \A f \in DOMAIN config \ {"available_balance"} : config'[f] = config[f]]_vars

\* a successful move_balances has reduced available_balance of a Config whose
\* settings are no longer those of the instantiation
C24_Witness ==
    /\ last.op = "move_balances"
    /\ last.result = "Ok"
    /\ config.available_balance # InitConfig.available_balance
    /\ config.owner_id # InitConfig.owner_id
    /\ config.paused
    /\ config.staked_balance = InitConfig.staked_balance

\* C25: move_balances by the owner to the owner account ends in a returned
\* result, success or a typed error, for every batch of movements, a native
\* movement with an empty coin list and the empty batch included; it never
\* aborts without a result
C25_OwnerMoveReturns ==
    OwnerMove
    => last.result \in {"Ok", "NotEnoughFunds", "InsufficientFunds",
                        "Unauthorized", "CustomError"}

\* C26: send_tokens(to, balance) emits one native send carrying all native
\* coins exactly when the native list is non-empty (none when it is empty),
\* followed by exactly one token transfer per cw20 entry in entry order, every
\* instruction addressed to `to`; the balance it returns equals the input
\* balance, and the input is not modified
C26_SendTokensInstructions ==
    last.op = "send_tokens"
    => LET native == last.input.native
           cw20 == last.input.cw20
           sends == {i \in 1..Len(last.messages) :
                        last.messages[i].kind = "BankMsg::Send"}
           offset == IF native = <<>> THEN 0 ELSE 1
       IN  /\ last.result = "Ok"
           /\ native = <<>> => sends = {}
           /\ native # <<>> => /\ sends = {1}
                               /\ last.messages[1].coins = native
           /\ Len(last.messages) = offset + Len(cw20)
           /\ \A i \in 1..Len(cw20) :
                  /\ last.messages[offset + i].kind = "Cw20ExecuteMsg::Transfer"
                  /\ last.messages[offset + i].token = cw20[i]
           /\ \A i \in 1..Len(last.messages) : last.messages[i].to = last.to
           /\ last.coins = last.input
           /\ last.balance = last.input

\* a balance of two native coins and two different token entries gives three
\* instructions: the native send, then the transfers in entry order
C26_Witness ==
    /\ last.op = "send_tokens"
    /\ Len(last.input.native) = 2
    /\ Len(last.input.cw20) = 2
    /\ last.input.cw20[1] # last.input.cw20[2]
    /\ Len(last.messages) = 3
    /\ last.messages[1].kind = "BankMsg::Send"
    /\ last.messages[3].token = last.input.cw20[2]

====
